---- MODULE Spec2Model ----
(***************************************************************************)
(* Model of src/src/persistencelandscape.rs: the sweep that turns a list   *)
(* of (birth, death) pairs into persistence-landscape layers.              *)
(*                                                                         *)
(* Numbers.  The inputs are f32; the model draws the finite ones from the  *)
(* even integers 0, 2, .., 2*MaxCoord.  On these every value the code      *)
(* computes (half distances, apexes, crossings of slope +1 / slope -1      *)
(* segments) is an integer that f32 holds exactly, so f32 arithmetic is    *)
(* integer arithmetic here.  Non-finite inputs are the classes "inf" and   *)
(* "nan".                                                                  *)
(*                                                                         *)
(* Option<T> is a sequence: << >> is None, <<v>> is Some(v).  Vec and      *)
(* VecDeque indices are 0-based in the code and 1-based in the sequences   *)
(* of the model, hence the "+ 1" at every indexing.                        *)
(***************************************************************************)
EXTENDS Integers, Sequences, FiniteSets, TLC

\* Bounds of the model.
MaxPairs == 2
MaxCoord == 4
MaxK == 2

VARIABLES
    bd_pairs,         \* the argument bd_pairs of generate
    k,                \* the argument k of generate
    builds,           \* the settings of overflow-checks the run so far is one of:
                      \* TRUE panics on usize overflow, FALSE wraps
    landscapes,       \* generate: landscapes
    mountains,        \* generate: mountains
    events,           \* generate: events, the BinaryHeap
    status,           \* generate: status, the VecDeque
    pc,               \* "loop", "returned" or "panicked"
    panic,            \* the panic message when pc = "panicked"
    extracted,        \* history: the events popped so far, in order
    ref               \* the same call on bd_pairs without its non-finite pairs

vars == <<bd_pairs, k, builds, landscapes, mountains, events, status,
          pc, panic, extracted, ref>>

----------------------------------------------------------------------------
\* f32 values and the inputs

FiniteValues == {2 * i : i \in 0..MaxCoord}

NonFiniteClasses == {"inf", "nan"}

is_finite(f) == f.class = "finite"

Finite(x) == [class |-> "finite", v |-> x]

NonFinite(c) == [class |-> c, v |-> 0]

BirthDeath(birth, death) == [birth |-> birth, death |-> death]

FinitePairs == {BirthDeath(Finite(b), Finite(d)) : b, d \in FiniteValues}

\* pairs with a non-finite birth, a non-finite death, or both
NonFinitePairs ==
    UNION {{BirthDeath(NonFinite(c), Finite(0)),
            BirthDeath(Finite(0), NonFinite(c)),
            BirthDeath(NonFinite(c), NonFinite(c))} : c \in NonFiniteClasses}

InsertAt(l, i, p) ==
    [j \in 1..(Len(l) + 1) |->
        IF j < i THEN l[j] ELSE IF j = i THEN p ELSE l[j - 1]]

\* The inputs of the model: bd_pairs is a list of up to MaxPairs pairs, at most
\* one of them non-finite, at any place.
InputChosen ==
    \/ \E n \in 0..MaxPairs : bd_pairs \in [1..n -> FinitePairs]
    \/ \E n \in 0..(MaxPairs - 1) :
          \E l \in [1..n -> FinitePairs], i \in 1..(n + 1), p \in NonFinitePairs :
              bd_pairs = InsertAt(l, i, p)

\* usize arithmetic wraps modulo 2^64 in a build without overflow checks.  TLC
\* integers are 32 bits wide, so the modulus here is a power of two they hold:
\* all that the code uses of a wrapped index is that it lies beyond every
\* index of status.
UsizeModulus == 2 ^ 30

----------------------------------------------------------------------------
\* PointOrd, EventType, Event and their derived orders

PointOrd(x, y) == [x |-> x, y |-> y]

\* #[derive(PartialOrd, Ord)] on PointOrd: x, then y
PointLess(p, q) == p.x < q.x \/ (p.x = q.x /\ p.y < q.y)

\* #[derive(PartialOrd, Ord)] on EventType: the declaration order
EventTypeOrd == [Death |-> 0, Birth |-> 1, Middle |-> 2, Intersection |-> 3]

\* Ord on Option<usize>: None is below every Some
OptionLess(a, b) ==
    \/ a = << >> /\ b # << >>
    \/ a # << >> /\ b # << >> /\ a[1] < b[1]

\* a plausible slip: Ord implemented by hand on the point and the tag only,
\* the tent identities left out
EventLess_without_ids(e, f) ==
    \/ PointLess(e.value, f.value)
    \/ /\ e.value = f.value
       /\ EventTypeOrd[e.event_type] < EventTypeOrd[f.event_type]

\* #[derive(PartialOrd, Ord)] on Event: lexicographic in the field order
EventLess(e, f) ==
    \/ PointLess(e.value, f.value)
    \/ /\ e.value = f.value
       /\ \/ EventTypeOrd[e.event_type] < EventTypeOrd[f.event_type]
          \/ /\ e.event_type = f.event_type
             /\ \/ e.parent_mountain_id < f.parent_mountain_id
                \/ /\ e.parent_mountain_id = f.parent_mountain_id
                   /\ OptionLess(e.parent_mountain2_id, f.parent_mountain2_id)

----------------------------------------------------------------------------
\* Tent builder and event seeder

create_mountain(birth, death, index) ==
    LET half_dist == (death - birth) \div 2
    IN  [position |-> << >>,
         slope_rising |-> TRUE,
         birth |-> PointOrd(birth, 0),
         middle |-> PointOrd(half_dist + birth, half_dist),
         death |-> PointOrd(death, 0),
         id |-> index]

\* .filter(|..| death.is_finite() && birth.is_finite())
FilterFinite(pairs) ==
    SelectSeq(pairs, LAMBDA p : is_finite(p.death) /\ is_finite(p.birth))

\* a plausible slip: .enumerate() before .filter(), so that the survivors keep
\* their indices in the unfiltered input
generate_mountains_enumerate_first(pairs) ==
    LET RECURSIVE Go(_)
        Go(i) == IF i > Len(pairs) THEN << >>
                 ELSE IF is_finite(pairs[i].death) /\ is_finite(pairs[i].birth)
                      THEN <<create_mountain(pairs[i].birth.v, pairs[i].death.v, i - 1)>>
                           \o Go(i + 1)
                      ELSE Go(i + 1)
    IN  Go(1)

generate_mountains(pairs) ==
    LET kept == FilterFinite(pairs)
    IN  [i \in 1..Len(kept) |->
            create_mountain(kept[i].birth.v, kept[i].death.v, i - 1)]

Event(value, event_type, id, id2) ==
    [value |-> value, event_type |-> event_type,
     parent_mountain_id |-> id, parent_mountain2_id |-> id2]

\* the three events of one mountain, in the order of the vec![..]
InitialEventsOf(m) ==
    <<Event(m.birth, "Birth", m.id, << >>),
      Event(m.middle, "Middle", m.id, << >>),
      Event(m.death, "Death", m.id, << >>)>>

RECURSIVE Flatten(_)
Flatten(ss) == IF ss = << >> THEN << >> ELSE Head(ss) \o Flatten(Tail(ss))

generate_initial_events(ms) ==
    Flatten([i \in 1..Len(ms) |-> InitialEventsOf(ms[i])])

----------------------------------------------------------------------------
\* BinaryHeap<Event>.  Only the contents of the heap and that pop gives the
\* greatest element are observable, not the layout inside its vector: the model
\* keeps the elements as a sequence in descending order, so the greatest is
\* the head.

\* BinaryHeap::push
HeapPush(h, e) ==
    LET n == Cardinality({i \in 1..Len(h) : ~EventLess(h[i], e)})
    IN  SubSeq(h, 1, n) \o <<e>> \o SubSeq(h, n + 1, Len(h))

\* BinaryHeap::from(vec)
RECURSIVE HeapFrom(_)
HeapFrom(es) ==
    IF es = << >> THEN << >> ELSE HeapPush(HeapFrom(Tail(es)), Head(es))

HeapIsEmpty(h) == h = << >>

\* BinaryHeap is a max-heap: pop gives the greatest element
HeapMax(h) == Head(h)

HeapPopped(h) == Tail(h)

----------------------------------------------------------------------------
\* Intersection detector

Coordinate(x, y) == [x |-> x, y |-> y]

Line(start, end) == [start |-> start, end |-> end]

current_segment_start(mountain) ==
    IF mountain.slope_rising
    THEN Coordinate(mountain.birth.x, mountain.birth.y)
    ELSE Coordinate(mountain.middle.x, mountain.middle.y)

current_segment_end(mountain) ==
    IF mountain.slope_rising
    THEN Coordinate(mountain.middle.x, mountain.middle.y)
    ELSE Coordinate(mountain.death.x, mountain.death.y)

create_line_segment(mountain) ==
    Line(current_segment_start(mountain), current_segment_end(mountain))

Min2(a, b) == IF a < b THEN a ELSE b

Max2(a, b) == IF a < b THEN b ELSE a

Sign(n) == IF n > 0 THEN 1 ELSE IF n < 0 THEN -1 ELSE 0

\* geo's orientation kernel: 1 counter-clockwise, -1 clockwise, 0 collinear
orient2d(a, b, c) ==
    Sign((a.x - c.x) * (b.y - c.y) - (a.y - c.y) * (b.x - c.x))

BoundingRectsIntersect(p, q) ==
    /\ Max2(p.start.x, p.end.x) >= Min2(q.start.x, q.end.x)
    /\ Max2(q.start.x, q.end.x) >= Min2(p.start.x, p.end.x)
    /\ Max2(p.start.y, p.end.y) >= Min2(q.start.y, q.end.y)
    /\ Max2(q.start.y, q.end.y) >= Min2(p.start.y, p.end.y)

\* The crossing point of two segments known to cross properly:
\* p.start + t * (p.end - p.start) with t = num / den.  On the inputs of the
\* model both quotients are exact.
proper_intersection(p, q) ==
    LET rx == p.end.x - p.start.x
        ry == p.end.y - p.start.y
        sx == q.end.x - q.start.x
        sy == q.end.y - q.start.y
        den0 == rx * sy - ry * sx
        num0 == (q.start.x - p.start.x) * sy - (q.start.y - p.start.y) * sx
        den == IF den0 < 0 THEN -den0 ELSE den0
        num == IF den0 < 0 THEN -num0 ELSE num0
    IN  Coordinate(p.start.x + (num * rx) \div den,
                   p.start.y + (num * ry) \div den)

\* geo::line_intersection::line_intersection: None when the segments do not
\* meet, Collinear when they overlap along a line, SinglePoint otherwise, with
\* is_proper exactly when the point is interior to both segments.
line_intersection(p, q) ==
    LET p_q1 == orient2d(p.start, p.end, q.start)
        p_q2 == orient2d(p.start, p.end, q.end)
        q_p1 == orient2d(q.start, q.end, p.start)
        q_p2 == orient2d(q.start, q.end, p.end)
        touch == IF p.start = q.start \/ p.start = q.end THEN p.start
                 ELSE IF p.end = q.start \/ p.end = q.end THEN p.end
                 ELSE IF p_q1 = 0 THEN q.start
                 ELSE IF p_q2 = 0 THEN q.end
                 ELSE IF q_p1 = 0 THEN p.start
                 ELSE p.end
        lox == Max2(Min2(p.start.x, p.end.x), Min2(q.start.x, q.end.x))
        hix == Min2(Max2(p.start.x, p.end.x), Max2(q.start.x, q.end.x))
        loy == Max2(Min2(p.start.y, p.end.y), Min2(q.start.y, q.end.y))
        hiy == Min2(Max2(p.start.y, p.end.y), Max2(q.start.y, q.end.y))
    IN  IF ~BoundingRectsIntersect(p, q) THEN [kind |-> "None"]
        ELSE IF p_q1 * p_q2 > 0 \/ q_p1 * q_p2 > 0 THEN [kind |-> "None"]
        ELSE IF p_q1 = 0 /\ p_q2 = 0 /\ q_p1 = 0 /\ q_p2 = 0
             THEN IF lox = hix /\ loy = hiy
                  THEN [kind |-> "SinglePoint",
                        intersection |-> Coordinate(lox, loy),
                        is_proper |-> FALSE]
                  ELSE [kind |-> "Collinear"]
        ELSE IF p_q1 = 0 \/ p_q2 = 0 \/ q_p1 = 0 \/ q_p2 = 0
             THEN [kind |-> "SinglePoint", intersection |-> touch,
                   is_proper |-> FALSE]
        ELSE [kind |-> "SinglePoint",
              intersection |-> proper_intersection(p, q),
              is_proper |-> TRUE]

\* a plausible slip: any SinglePoint is taken, is_proper being left unmatched,
\* so that a touch at an endpoint counts as a crossing
intersects_with_neighbor_any_point(m1, m2) ==
    IF m1.slope_rising = m2.slope_rising THEN << >>
    ELSE LET r == line_intersection(create_line_segment(m1),
                                    create_line_segment(m2))
         IN  IF r.kind = "SinglePoint"
             THEN <<PointOrd(r.intersection.x, r.intersection.y)>>
             ELSE << >>

\* Option<PointOrd>
intersects_with_neighbor(m1, m2) ==
    IF m1.slope_rising = m2.slope_rising THEN << >>
    ELSE LET r == line_intersection(create_line_segment(m1),
                                    create_line_segment(m2))
         IN  IF r.kind = "SinglePoint" /\ r.is_proper
             THEN <<PointOrd(r.intersection.x, r.intersection.y)>>
             ELSE << >>

----------------------------------------------------------------------------
\* The sweep.  The mutable locals of generate travel as one record s with the
\* fields landscapes, mountains, events, status, pc and panic, so that each
\* function of the code is an operator from the state before to the state
\* after.  A panic leaves the state as it was when the panic was raised.

Panic(s, msg) == [s EXCEPT !.pc = "panicked", !.panic = msg]

\* mountain is a copy (the struct is Copy), taken by the caller
log_to_landscape(s, mountain, event) ==
    IF mountain.position = << >>
    THEN Panic(s, "Mountain with event is dead")
    ELSE LET position == mountain.position[1]
         IN  IF position < k
             THEN IF position < Len(s.landscapes)
                  THEN [s EXCEPT !.landscapes[position + 1] =
                                      Append(@, event.value)]
                  ELSE Panic(s, "index out of bounds")
             ELSE s

\* The result is [panic |-> the message, or "" when none is raised,
\*                event |-> the returned Option<Event>].
handle_intersection(s, m1, offset, overflow_checks) ==
    IF m1.position = << >>
    THEN [panic |-> "Mountain with event is dead", event |-> << >>]
    ELSE LET position == m1.position[1]
         IN  IF offset = -1 /\ position = 0 /\ overflow_checks
             THEN [panic |-> "attempt to subtract with overflow",
                   event |-> << >>]
             ELSE LET neighbor_index ==
                          IF offset = 1 THEN position + 1
                          ELSE (position - 1) % UsizeModulus
                      intersection ==
                          IF neighbor_index < Len(s.status)
                          THEN intersects_with_neighbor(
                                   m1,
                                   s.mountains[s.status[neighbor_index + 1] + 1])
                          ELSE << >>
                  IN  [panic |-> "",
                       event |->
                           IF intersection # << >>
                           THEN <<Event(intersection[1], "Intersection", m1.id,
                                        <<s.status[neighbor_index + 1]>>)>>
                           ELSE << >>]

\* what the call sites do with the result of handle_intersection
PushNewEvent(s, r) ==
    IF r.panic # "" THEN Panic(s, r.panic)
    ELSE IF r.event # << >> THEN [s EXCEPT !.events = HeapPush(@, r.event[1])]
    ELSE s

\* EventType::Birth =>
BirthArm(s, event, overflow_checks) ==
    LET id == event.parent_mountain_id
        s1 == [s EXCEPT !.status = Append(@, id)]
        position == Len(s1.status) - 1
        s2 == [s1 EXCEPT !.mountains[id + 1].position = <<position>>]
        s3 == log_to_landscape(s2, s2.mountains[id + 1], event)
    IN  IF s3.pc = "panicked" THEN s3
        ELSE PushNewEvent(s3, handle_intersection(s3, s3.mountains[id + 1], -1,
                                                  overflow_checks))

\* EventType::Middle =>
MiddleArm(s, event) ==
    LET id == event.parent_mountain_id
        s1 == [s EXCEPT !.mountains[id + 1].slope_rising = FALSE]
        s2 == log_to_landscape(s1, s1.mountains[id + 1], event)
    IN  IF s2.pc = "panicked" THEN s2
        ELSE PushNewEvent(s2, handle_intersection(s2, s2.mountains[id + 1], 1,
                                                  FALSE))

\* status.pop_back()
pop_back(q) == IF q = << >> THEN q ELSE SubSeq(q, 1, Len(q) - 1)

\* a plausible slip: the Death arm without its last statement
DeathArm_keeps_position(s, event) ==
    LET id == event.parent_mountain_id
        s1 == log_to_landscape(s, s.mountains[id + 1], event)
    IN  IF s1.pc = "panicked" THEN s1
        ELSE [s1 EXCEPT !.status = pop_back(@)]

\* EventType::Death =>
DeathArm(s, event) ==
    LET id == event.parent_mountain_id
        s1 == log_to_landscape(s, s.mountains[id + 1], event)
    IN  IF s1.pc = "panicked" THEN s1
        ELSE [s1 EXCEPT !.status = pop_back(@),
                        !.mountains[id + 1].position = << >>]

\* EventType::Intersection =>
IntersectionArm(s, event) ==
    LET id == event.parent_mountain_id
        s1 == log_to_landscape(s, s.mountains[id + 1], event)
    IN  IF s1.pc = "panicked" THEN s1
        ELSE IF event.parent_mountain2_id = << >>
        THEN Panic(s1, "Intersection event with no second mountain")
        ELSE LET id2 == event.parent_mountain2_id[1]
                 s2 == log_to_landscape(s1, s1.mountains[id2 + 1], event)
             IN  IF s2.pc = "panicked" THEN s2
                 ELSE IF ~s2.mountains[id + 1].slope_rising
                 THEN Panic(s2, "assertion failed: slope_rising == true")
                 ELSE s2

\* the locals of generate before the loop
generate_start(pairs) ==
    LET ms == generate_mountains(pairs)
    IN  [landscapes |-> << >>,
         mountains |-> ms,
         events |-> HeapFrom(generate_initial_events(ms)),
         status |-> << >>,
         pc |-> "loop",
         panic |-> ""]

\* one evaluation of `while let Some(event) = events.pop()`, body included
LoopStep(s, overflow_checks) ==
    IF s.pc # "loop" THEN s
    ELSE IF HeapIsEmpty(s.events) THEN [s EXCEPT !.pc = "returned"]
    ELSE LET event == HeapMax(s.events)
             t == [s EXCEPT !.events = HeapPopped(@)]
         IN  CASE event.event_type = "Birth" -> BirthArm(t, event, overflow_checks)
               [] event.event_type = "Middle" -> MiddleArm(t, event)
               [] event.event_type = "Death" -> DeathArm(t, event)
               [] event.event_type = "Intersection" -> IntersectionArm(t, event)

----------------------------------------------------------------------------
\* The state machine

cur == [landscapes |-> landscapes, mountains |-> mountains, events |-> events,
        status |-> status, pc |-> pc, panic |-> panic]

Apply(n) ==
    /\ landscapes' = n.landscapes
    /\ mountains' = n.mountains
    /\ events' = n.events
    /\ status' = n.status
    /\ pc' = n.pc
    /\ panic' = n.panic

Init ==
    /\ InputChosen
    /\ builds = BOOLEAN
    /\ LET s == generate_start(bd_pairs)
       IN  /\ landscapes = s.landscapes
           /\ mountains = s.mountains
           /\ events = s.events
           /\ status = s.status
           /\ pc = s.pc
           /\ panic = s.panic
    /\ extracted = << >>
    /\ ref = generate_start(FilterFinite(bd_pairs))
    /\ k \in 0..MaxK

\* events.pop() gives an event of the type
Popped(type) ==
    /\ pc = "loop"
    /\ ~HeapIsEmpty(events)
    /\ HeapMax(events).event_type = type
    /\ extracted' = Append(extracted, HeapMax(events))
    /\ UNCHANGED <<bd_pairs, k>>

AfterPop == [cur EXCEPT !.events = HeapPopped(@)]

\* The Birth arm evaluates position - 1 with position = 0: status was empty
\* and the recording before the subtraction does not panic.
SubtractionOverflows == status = << >> /\ k = 0

Birth ==
    /\ Popped("Birth")
    /\ \E overflow_checks \in builds :
          /\ Apply(BirthArm(AfterPop, HeapMax(events), overflow_checks))
          /\ ref' = LoopStep(ref, overflow_checks)
          /\ builds' = IF SubtractionOverflows THEN {overflow_checks}
                       ELSE builds

Middle ==
    /\ Popped("Middle")
    /\ Apply(MiddleArm(AfterPop, HeapMax(events)))
    /\ ref' = LoopStep(ref, FALSE)
    /\ UNCHANGED builds

Death ==
    /\ Popped("Death")
    /\ Apply(DeathArm(AfterPop, HeapMax(events)))
    /\ ref' = LoopStep(ref, FALSE)
    /\ UNCHANGED builds

Intersection ==
    /\ Popped("Intersection")
    /\ Apply(IntersectionArm(AfterPop, HeapMax(events)))
    /\ ref' = LoopStep(ref, FALSE)
    /\ UNCHANGED builds

\* events.pop() gives None: return landscapes.to_vec()
Return ==
    /\ pc = "loop"
    /\ HeapIsEmpty(events)
    /\ pc' = "returned"
    /\ ref' = LoopStep(ref, FALSE)
    /\ UNCHANGED <<bd_pairs, k, builds, landscapes, mountains, events,
                   status, panic, extracted>>

Next == Birth \/ Middle \/ Death \/ Intersection \/ Return

Spec == Init /\ [][Next]_vars

----------------------------------------------------------------------------
\* Vocabulary of the properties

\* every pair of the input is finite with birth < death
ValidInput ==
    \A i \in 1..Len(bd_pairs) :
        /\ is_finite(bd_pairs[i].birth)
        /\ is_finite(bd_pairs[i].death)
        /\ bd_pairs[i].birth.v < bd_pairs[i].death.v

\* The events whose arm has run to its end: a panic is raised inside the arm
\* of the event popped last.
Processed ==
    IF pc = "panicked" THEN SubSeq(extracted, 1, Len(extracted) - 1)
    ELSE extracted

EventProcessed(type, id) ==
    \E i \in 1..Len(Processed) :
        /\ Processed[i].event_type = type
        /\ Processed[i].parent_mountain_id = id

Ranked == {i \in 1..Len(mountains) : mountains[i].position # << >>}

\* the value at x of the tent of a pair: it rises from (birth, 0) to the apex
\* and falls to (death, 0), and is 0 elsewhere
TentValue(pair, x) ==
    Max2(0, Min2(x - pair.birth.v, pair.death.v - x))

\* the j-th largest (j >= 1) of the tent values at x, 0 when there are fewer
\* than j tents
RankValue(j, x) ==
    LET tents == FilterFinite(bd_pairs)
        val(i) == TentValue(tents[i], x)
        above(v) == Cardinality({i \in 1..Len(tents) : val(i) > v})
        atleast(v) == Cardinality({i \in 1..Len(tents) : val(i) >= v})
    IN  IF Len(tents) < j THEN 0
        ELSE CHOOSE v \in {val(i) : i \in 1..Len(tents)} :
                 above(v) < j /\ j <= atleast(v)

\* the piecewise-linear interpolation of the points of a layer has the value v
\* at x (0 outside the span of the points)
LayerValueIs(layer, x, v) ==
    IF layer = << >> \/ x < layer[1].x \/ x > layer[Len(layer)].x
    THEN v = 0
    ELSE \E i \in 1..Len(layer) :
            \/ layer[i].x = x /\ layer[i].y = v
            \/ /\ i < Len(layer)
               /\ layer[i].x < x /\ x < layer[i + 1].x
               /\ (v - layer[i].y) * (layer[i + 1].x - layer[i].x)
                    = (layer[i + 1].y - layer[i].y) * (x - layer[i].x)

SampleXs == 0..(2 * MaxCoord)

\* layer i of the output; a layer the output does not hold has no points
Layer(i) == IF i < Len(landscapes) THEN landscapes[i + 1] ELSE << >>

----------------------------------------------------------------------------
\* The claims

\* C1: for every finite input of pairs with birth < death and every k,
\* generate finishes and layer i (i < k), read as the piecewise-linear
\* interpolation of its points, has at every x the (i+1)-th largest tent
\* value at x (0 where fewer than i+1 tents are alive).
C1_LayersAreRankEnvelopes ==
    (ValidInput /\ pc # "loop") =>
        /\ pc = "returned"
        /\ \A i \in 0..(k - 1), x \in SampleXs :
              LayerValueIs(Layer(i), x, RankValue(i + 1, x))

\* C2: for every input and every k >= 0, generate returns a list of exactly k
\* point sequences.
C2_ReturnsKLayers == pc = "returned" => Len(landscapes) = k

\* C3: for a single finite pair (b, d) with b < d and k = 1, generate returns
\* layer 0 = [(b,0), ((b+d)/2,(d-b)/2), (d,0)].
C3_SingleTentLayer ==
    (/\ Len(bd_pairs) = 1
     /\ ValidInput
     /\ k = 1
     /\ pc # "loop") =>
        LET b == bd_pairs[1].birth.v
            d == bd_pairs[1].death.v
        IN  /\ pc = "returned"
            /\ landscapes = << <<PointOrd(b, 0),
                                 PointOrd((b + d) \div 2, (d - b) \div 2),
                                 PointOrd(d, 0)>> >>

\* C4: no extracted event has a point (x, then y) smaller than the point of an
\* event extracted before it, and the first event extracted is a leftmost
\* one among the seeded events.
C4_ExtractionIncreasing ==
    /\ \A i, j \in 1..Len(extracted) :
          i < j => ~PointLess(extracted[j].value, extracted[i].value)
    /\ extracted # << >> =>
          \A m \in 1..Len(mountains) :
              \A e \in {mountains[m].birth, mountains[m].middle,
                        mountains[m].death} :
                  ~PointLess(e, extracted[1].value)

\* C5: for every input of finite pairs with birth < death, the abort
\* "Mountain with event is dead" is never raised.
C5_NoDeadMountainAbort ==
    ValidInput => ~(pc = "panicked" /\ panic = "Mountain with event is dead")

\* the step processes an Intersection event to the end of its arm
IntersectionProcessed ==
    /\ pc = "loop"
    /\ pc' = "loop"
    /\ events # << >>
    /\ HeapMax(events).event_type = "Intersection"
    /\ extracted' = Append(extracted, HeapMax(events))

\* C6: when an Intersection event for tents A and B is processed, the ranks of
\* A and B are exchanged, and so are their places in the active-rank sequence.
C6_IntersectionSwapsRanks ==
    [][IntersectionProcessed =>
          LET a == HeapMax(events).parent_mountain_id + 1
              b == HeapMax(events).parent_mountain2_id[1] + 1
              ra == mountains[a].position[1] + 1
              rb == mountains[b].position[1] + 1
          IN  /\ mountains'[a].position = mountains[b].position
              /\ mountains'[b].position = mountains[a].position
              /\ Len(status') = Len(status)
              /\ ra <= Len(status) /\ rb <= Len(status)
              /\ status'[ra] = status[rb]
              /\ status'[rb] = status[ra]]_vars

\* C7: after every processed event, a tent has a rank (position is Some) if
\* and only if its Birth event has been processed and its Death event has not.
C7_RankIffBornNotDead ==
    pc # "panicked" =>
        \A i \in 1..Len(mountains) :
            (mountains[i].position # << >>)
                <=> (/\ EventProcessed("Birth", mountains[i].id)
                     /\ ~EventProcessed("Death", mountains[i].id))

\* a tent with a rank beside a tent whose Death has been processed
C7_Witness ==
    /\ pc = "loop"
    /\ \E i, j \in 1..Len(mountains) :
          /\ mountains[i].position # << >>
          /\ EventProcessed("Birth", mountains[i].id)
          /\ EventProcessed("Death", mountains[j].id)
          /\ mountains[j].position = << >>

\* C8: after every processed event, status holds exactly the tents that have
\* a rank, each once, and the rank of each is its index in status.
C8_StatusMirrorsRanks ==
    pc # "panicked" =>
        /\ Len(status) = Cardinality(Ranked)
        /\ \A i \in Ranked :
              /\ mountains[i].position[1] < Len(status)
              /\ status[mountains[i].position[1] + 1] = mountains[i].id

\* C10: at every step, and so in the outcome, generate on the input is where
\* generate on the input without its non-finite pairs is: the same mountains
\* with the same identities, queue, ranks, layers, and the same return or
\* panic.
C10_FilteringLaw == cur = ref

\* a call whose input holds a non-finite pair and a finite one has returned
\* after processing the events of the finite one
C10_Witness ==
    /\ pc = "returned"
    /\ Len(FilterFinite(bd_pairs)) < Len(bd_pairs)
    /\ mountains # << >>
    /\ Len(extracted) >= 3

\* C11: with k = 0, generate runs to completion without aborting and returns
\* an empty output list, for every finite input of birth < death pairs.
C11_ZeroLayersReturnsEmpty ==
    (ValidInput /\ k = 0 /\ pc # "loop") =>
        (pc = "returned" /\ landscapes = << >>)

\* the input [(0,4), (1,3)] on the grid of the model, where the finite values
\* are even: every coordinate is doubled
NestedInput ==
    <<BirthDeath(Finite(0), Finite(8)), BirthDeath(Finite(2), Finite(6))>>

\* C12: for the nested input [(0,4), (1,3)] with k = 2 (here doubled), generate
\* returns two layers: layer 0 starts at the birth point of the outer tent and
\* ends at its death point, and layer 1 holds only points of the inner tent,
\* starting at its birth point and ending at its death point.
C12_NestedTentsLayers ==
    (bd_pairs = NestedInput /\ k = 2 /\ pc # "loop") =>
        /\ pc = "returned"
        /\ Len(landscapes) = 2
        /\ landscapes[1] # << >>
        /\ landscapes[1][1] = PointOrd(0, 0)
        /\ landscapes[1][Len(landscapes[1])] = PointOrd(8, 0)
        /\ landscapes[2] # << >>
        /\ landscapes[2][1] = PointOrd(2, 0)
        /\ landscapes[2][Len(landscapes[2])] = PointOrd(6, 0)
        /\ \A i \in 1..Len(landscapes[2]) :
              landscapes[2][i].y
                  = TentValue(NestedInput[2], landscapes[2][i].x)

\* C13: every Intersection event that is extracted has its primary tent in
\* the rising phase when it is processed: the assertion slope_rising == true
\* never fails.
C13_IntersectionPrimaryRising ==
    /\ ~(pc = "panicked" /\ panic = "assertion failed: slope_rising == true")
    /\ (extracted # << >>
          /\ extracted[Len(extracted)].event_type = "Intersection") =>
            mountains[extracted[Len(extracted)].parent_mountain_id + 1].slope_rising

\* the step processes a Death event to the end of its arm
DeathProcessed ==
    /\ pc = "loop"
    /\ pc' = "loop"
    /\ events # << >>
    /\ HeapMax(events).event_type = "Death"
    /\ extracted' = Append(extracted, HeapMax(events))

\* C14: whenever a Death event for tent t is processed, t is the last element
\* of the active-rank sequence, so the element removed is t itself and the
\* others keep their places.
C14_DeathRemovesLast ==
    [][DeathProcessed =>
          /\ status # << >>
          /\ status[Len(status)] = HeapMax(events).parent_mountain_id
          /\ status' = SubSeq(status, 1, Len(status) - 1)]_vars

\* the step pops the Birth event of a tent that becomes the only active one,
\* with no layer requested, so that the recording has nothing to do
BirthAtRankZero ==
    /\ pc = "loop"
    /\ events # << >>
    /\ HeapMax(events).event_type = "Birth"
    /\ extracted' = Append(extracted, HeapMax(events))
    /\ status = << >>
    /\ k = 0

\* C15, the case of rank 0: processing the Birth event of a tent t that is
\* the only active tent appends t to the active-rank sequence, sets its rank
\* to 0, the rank-minus-one index computation does not fail, nothing is
\* enqueued and the sweep continues.
C15_BirthAtRankZeroContinues ==
    [][BirthAtRankZero =>
          LET id == HeapMax(events).parent_mountain_id
          IN  /\ pc' = "loop"
              /\ status' = <<id>>
              /\ mountains'[id + 1].position = <<0>>
              /\ events' = HeapPopped(events)]_vars

\* C16: recording a point for a tent with rank r appends it to layer r when
\* r < k, changes no layer when r >= k, and never fails: the indexing
\* landscapes[r] never aborts.
C16_RecordingNeverFails ==
    ~(pc = "panicked" /\ panic = "index out of bounds")

\* C17: from the queue of the 3n seed events the loop reaches the terminal
\* state with the queue empty: when the sweep of a valid input has stopped, it
\* has returned and the queue is empty.
C17_SweepReachesEmptyQueue ==
    (ValidInput /\ pc # "loop") => (pc = "returned" /\ events = << >>)

\* the lattice points of the bounding box of a segment.  Segments of opposite
\* phases lie on lines y = x - b and y = d - x with b and d even, so the points
\* they share are lattice points.
BoxPoints(l) ==
    {Coordinate(x, y) :
        x \in Min2(l.start.x, l.end.x)..Max2(l.start.x, l.end.x),
        y \in Min2(l.start.y, l.end.y)..Max2(l.start.y, l.end.y)}

\* pt lies on the segment l, its endpoints included
OnSegment(l, pt) ==
    /\ (l.end.x - l.start.x) * (pt.y - l.start.y)
          = (l.end.y - l.start.y) * (pt.x - l.start.x)
    /\ Min2(l.start.x, l.end.x) <= pt.x /\ pt.x <= Max2(l.start.x, l.end.x)
    /\ Min2(l.start.y, l.end.y) <= pt.y /\ pt.y <= Max2(l.start.y, l.end.y)

InteriorTo(l, pt) == OnSegment(l, pt) /\ pt # l.start /\ pt # l.end

CommonPoints(p, q) == {pt \in BoxPoints(p) : OnSegment(p, pt) /\ OnSegment(q, pt)}

\* the two segments cross at the single point pt, interior to both
CrossAt(p, q, pt) ==
    /\ CommonPoints(p, q) = {pt}
    /\ InteriorTo(p, pt)
    /\ InteriorTo(q, pt)

\* C18: intersects_with_neighbor reports a point exactly when the two tents
\* have opposite slope flags and their active segments cross at a single point
\* interior to both segments, and that point is the one reported; it reports
\* nothing when the flags agree, when the segments touch at an endpoint,
\* overlap collinearly or do not meet.  Stated for every ordered pair of
\* active tents, the only tents the probes are called with.
C18_ReportsProperCrossingsOnly ==
    \A a, b \in 1..Len(status) :
        LET m1 == mountains[status[a] + 1]
            m2 == mountains[status[b] + 1]
            p == create_line_segment(m1)
            q == create_line_segment(m2)
            r == intersects_with_neighbor(m1, m2)
        IN  IF m1.slope_rising = m2.slope_rising
            THEN r = << >>
            ELSE /\ r # << >> => CrossAt(p, q, Coordinate(r[1].x, r[1].y))
                 /\ r = << >> => \A pt \in BoxPoints(p) : ~CrossAt(p, q, pt)

\* a crossing found by a probe is in the queue, and the two tents that cross
\* are in opposite phases
C18_Witness ==
    \E n \in 1..Len(events) :
        /\ events[n].event_type = "Intersection"
        /\ events[n].parent_mountain2_id # << >>
        /\ LET m1 == mountains[events[n].parent_mountain_id + 1]
               m2 == mountains[events[n].parent_mountain2_id[1] + 1]
           IN  /\ m1.position # << >>
               /\ m2.position # << >>
               /\ m1.slope_rising # m2.slope_rising
               /\ intersects_with_neighbor(m1, m2) = <<events[n].value>>

\* two tents in opposite phases, while the sweep runs, whose active segments
\* only touch at an endpoint, for which nothing is reported
C18_WitnessTouch ==
    \E a, b \in 1..Len(status) :
        LET m1 == mountains[status[a] + 1]
            m2 == mountains[status[b] + 1]
            p == create_line_segment(m1)
            q == create_line_segment(m2)
        IN  /\ pc = "loop"
            /\ p.start # p.end
            /\ q.start # q.end
            /\ m1.slope_rising # m2.slope_rising
            /\ CommonPoints(p, q) # {}
            /\ intersects_with_neighbor(m1, m2) = << >>

\* the tag precedence of the event order, lowest first
TagPrecedence == <<"Death", "Birth", "Middle", "Intersection">>

TagRank(tag) == CHOOSE i \in 1..Len(TagPrecedence) : TagPrecedence[i] = tag

\* the sort key of an event: point (x then y), tag, primary tent, secondary
\* tent (absent is below every tent)
Key(e) ==
    <<e.value.x, e.value.y, TagRank(e.event_type), e.parent_mountain_id,
      IF e.parent_mountain2_id = << >> THEN -1 ELSE e.parent_mountain2_id[1]>>

\* strict lexicographic order on keys: a strict total order
KeyLess(s, t) ==
    \E i \in 1..Len(s) : s[i] < t[i] /\ \A j \in 1..(i - 1) : s[j] = t[j]

\* C19: events are totally ordered by point (x then y), then by the tag
\* precedence Death < Birth < Middle < Intersection, then by primary and
\* secondary tent; no two events in the queue compare equal, so the extraction
\* order is fully determined.  The queue is held greatest first: each event
\* is strictly above the next one by the key, hence above all later ones, and
\* the derived order of the code says the same.
C19_EventsTotallyOrdered ==
    \A n \in 1..(Len(events) - 1) :
        /\ KeyLess(Key(events[n + 1]), Key(events[n]))
        /\ EventLess(events[n + 1], events[n])
        /\ ~EventLess(events[n], events[n + 1])

\* after an extraction the queue holds two events at the same point with the
\* same tag, which only the tent identity tells apart
C19_Witness ==
    /\ pc = "loop"
    /\ extracted # << >>
    /\ \E n \in 1..(Len(events) - 1) :
          /\ events[n].value = events[n + 1].value
          /\ events[n].event_type = events[n + 1].event_type

\* the step processes a Birth or a Middle event, the two arms that probe a
\* neighbour
ProbingEventProcessed ==
    /\ pc = "loop"
    /\ events # << >>
    /\ HeapMax(events).event_type \in {"Birth", "Middle"}
    /\ extracted' = Append(extracted, HeapMax(events))

\* C20: every Intersection event enqueued while a Birth or Middle event at
\* sweep position x0 is processed has a point whose x is strictly greater than
\* x0.
C20_CrossingsScheduledAhead ==
    [][ProbingEventProcessed =>
          \A n \in 1..Len(events') :
              (/\ events'[n].event_type = "Intersection"
               /\ \A m \in 1..Len(events) : events[m] # events'[n])
                  => events'[n].value.x > HeapMax(events).value.x]_vars

====
